---------------------------- MODULE Spec2Model ----------------------------
(***************************************************************************)
(* A model of the card renderer: the vertex-attribute layout macro         *)
(* (util.rs), the card data model (card.rs), the camera controller         *)
(* (camera.rs) and the render orchestrator State with its event handlers   *)
(* (state.rs, lib.rs).                                                     *)
(*                                                                         *)
(* f32 quantities are kept as exact integers: the eye moves on the grid    *)
(* of multiples of the controller speed 2.0, and grid positions are kept   *)
(* in tenths of a world unit, all far below 2^24, where f32 arithmetic on  *)
(* these values is exact.                                                  *)
(***************************************************************************)
EXTENDS Integers, Sequences, FiniteSets, TLC

VARIABLES
    \* ---- expansion of one attributes! invocation (util.rs) ----
    invocation,       \* the macro invocation being expanded
    apc,              \* where the expansion stands
    data,             \* the macro's local array `data`
    shader_location,  \* the macro's local `shader_location`
    offset,           \* the macro's local `offset`
    \* ---- one Card and its packed record (card.rs) ----
    card,             \* the Card handed to to_instance
    cpc,              \* whether to_instance has run
    packed,           \* the Instance that to_instance returned
    \* ---- the orchestrator and its event loop (state.rs, lib.rs) ----
    state,            \* the State struct
    control_flow,     \* the event loop's *control_flow
    event,            \* the event the closure handled last
    returned,         \* what handle_event returned for it
    lpc,              \* the event loop's position
    latest,           \* the latest resize of the window to a positive size
    history,          \* what was delivered so far: the window events of the
                      \* controller's own run, the acquisitions' answers of
                      \* the redraw ticks
    \* ---- the process from main to its exit (main.rs, lib.rs) ----
    rpc,              \* where main / run / run_inner stand
    setup,            \* how setup ends on this machine: "ok", or the step that fails
    log,              \* what the logger has been given
    exit_status       \* <<>> while the process lives, then <<status>>

layout_vars == <<invocation, apc, data, shader_location, offset>>
card_vars == <<card, cpc, packed>>
loop_vars == <<state, control_flow, event, returned, lpc, latest, history>>
run_vars == <<rpc, setup, log, exit_status>>
vars == <<layout_vars, card_vars, loop_vars, run_vars>>

\* ------------------------------------------------------------------------
\* Bounds of the model
\* ------------------------------------------------------------------------

\* longest format list handed to the macro besides the two declared layouts
MaxFormats == 2
\* the eye stays within MaxEye controller steps of the origin on each axis
MaxEye == 1
\* window dimensions reported by the windowing system range over 0..MaxDim
MaxDim == 2
\* keyboard events in one run of the controller on its own
MaxKeyEvents == 3
\* viewport widths and heights, and zooms, of the cameras whose
\* view-projection is built on its own
MaxView == 3
\* redraw ticks in one run of the ticks under constant flags
MaxTicks == 3

\* ------------------------------------------------------------------------
\* util.rs: vertex_format_size, count!, attributes!
\* ------------------------------------------------------------------------

\* the match arms of vertex_format_size that are todo!()
Todo == {"Float16x2", "Float16x4"}

vertex_format_size(format) ==
    CASE format = "Float32" -> 4
      [] format = "Float32x2" -> 8
      [] format = "Float32x3" -> 12
      [] format = "Float32x4" -> 16
      [] format = "Float64" -> 8
      [] format = "Float64x2" -> 16
      [] format = "Float64x3" -> 24
      [] format = "Float64x4" -> 32
      [] format = "Sint16x2" -> 4
      [] format = "Sint16x4" -> 8
      [] format = "Sint32" -> 4
      [] format = "Sint32x2" -> 8
      [] format = "Sint32x3" -> 12
      [] format = "Sint32x4" -> 16
      [] format = "Sint8x2" -> 2
      [] format = "Sint8x4" -> 4
      [] format = "Snorm16x2" -> 4
      [] format = "Snorm16x4" -> 8
      [] format = "Snorm8x2" -> 2
      [] format = "Snorm8x4" -> 4
      [] format = "Uint16x2" -> 4
      [] format = "Uint16x4" -> 8
      [] format = "Uint32" -> 4
      [] format = "Uint32x2" -> 8
      [] format = "Uint32x3" -> 12
      [] format = "Uint32x4" -> 16
      [] format = "Uint8x2" -> 2
      [] format = "Uint8x4" -> 4
      [] format = "Unorm16x2" -> 4
      [] format = "Unorm16x4" -> 8
      [] format = "Unorm8x2" -> 2
      [] format = "Unorm8x4" -> 4

\* the variants of wgpu's VertexFormat, one per arm of vertex_format_size
VertexFormats ==
    {"Float16x2", "Float16x4", "Float32", "Float32x2", "Float32x3", "Float32x4",
     "Float64", "Float64x2", "Float64x3", "Float64x4", "Sint16x2", "Sint16x4",
     "Sint32", "Sint32x2", "Sint32x3", "Sint32x4", "Sint8x2", "Sint8x4",
     "Snorm16x2", "Snorm16x4", "Snorm8x2", "Snorm8x4", "Uint16x2", "Uint16x4",
     "Uint32", "Uint32x2", "Uint32x3", "Uint32x4", "Uint8x2", "Uint8x4",
     "Unorm16x2", "Unorm16x4", "Unorm8x2", "Unorm8x4"}

eval_vertex_format_size_defaulting(format) ==
    IF format \in Todo THEN <<0>> ELSE <<vertex_format_size(format)>>

\* a call of vertex_format_size: <<size>> when an arm returns, <<>> when
\* the arm is todo!() and the call panics
eval_vertex_format_size(format) ==
    IF format \in Todo THEN <<>> ELSE <<vertex_format_size(format)>>

\* count!: one per token tree
count(tokens) == Len(tokens)

\* The value every element of `data` starts with.
DefaultAttribute == [offset |-> 0, shader_location |-> 0, format |-> "Float32"]

\* A macro invocation: an optional `start_location n;` prefix, then the
\* comma-separated format expressions.
NoPrefix == <<>>

Invoke(prefix, formats) == [start_location |-> prefix, formats |-> formats]

\* The single rule of attributes!, ( $( $x:expr ),* ): a comma-separated list
\* of expressions.  A `start_location n;` prefix is no expression list.
MatchesRule(inv) == inv.start_location = NoPrefix

\* The two invocations card.rs makes.
VertexInvocation == Invoke(NoPrefix, <<"Float32x3", "Float32x2">>)

InstanceInvocation ==
    Invoke(<<5>>, <<"Float32x4", "Float32x4", "Float32x4", "Float32x4",
                "Uint32", "Uint32", "Uint32">>)

\* size_of of the two #[repr(C)] structs: their fields are all 4-aligned,
\* so the size is the sum of the field sizes.
SizeOfVertex == 3 * 4 + 2 * 4

SizeOfInstance == 16 * 4 + 4 + 4 + 4

\* formats the model hands to the macro in generated invocations
InputFormats ==
    {"Float32x2", "Float32x3", "Float32x4", "Uint32", "Uint8x2", "Float16x2", "Float16x4"}

RECURSIVE SeqsUpTo(_, _)
SeqsUpTo(S, n) ==
    IF n = 0 THEN {<<>>}
    ELSE LET shorter == SeqsUpTo(S, n - 1)
         IN shorter \cup {Append(s, x) : s \in {t \in shorter : Len(t) = n - 1}, x \in S}

Prefixes == {NoPrefix, <<0>>, <<5>>}

Invocations ==
    {inv \in {Invoke(p, f) : p \in Prefixes, f \in SeqsUpTo(InputFormats, MaxFormats)} :
        inv.start_location = NoPrefix \/ inv.formats # <<>>}
        \cup {VertexInvocation, InstanceInvocation}

LayoutIdle ==
    /\ invocation = Invoke(NoPrefix, <<>>)
    /\ apc = "idle"
    /\ data = <<>>
    /\ shader_location = 0
    /\ offset = 0

\* Macro matching: the rule matches and its locals are initialised, or no
\* rule matches and the build stops.
AttributesMatch ==
    /\ apc = "invoked"
    /\ IF MatchesRule(invocation)
       THEN /\ apc' = "expanding"
            /\ shader_location' = 0
            /\ offset' = 0
            /\ data' = [i \in 1..count(invocation.formats) |-> DefaultAttribute]
       ELSE /\ apc' = "no_rule"
            /\ UNCHANGED <<data, shader_location, offset>>
    /\ UNCHANGED invocation

\* One repetition of the block the macro emits per format.
AttributesRepeat ==
    /\ apc = "expanding"
    /\ shader_location < count(invocation.formats)
    /\ LET x == invocation.formats[shader_location + 1]
       IN /\ data' = [data EXCEPT ![shader_location + 1] =
                        [offset |-> offset,
                         shader_location |-> shader_location,
                         format |-> x]]
          /\ shader_location' = shader_location + 1
          /\ LET size == eval_vertex_format_size(x)
             IN IF size = <<>>
                THEN /\ apc' = "panicked"
                     /\ UNCHANGED offset
                ELSE /\ apc' = apc
                     /\ offset' = offset + size[1]
    /\ UNCHANGED invocation

\* The block's value: `data`.
AttributesYield ==
    /\ apc = "expanding"
    /\ shader_location = count(invocation.formats)
    /\ apc' = "done"
    /\ UNCHANGED <<invocation, data, shader_location, offset>>

\* ------------------------------------------------------------------------
\* card.rs: Suit, Card, Instance
\* ------------------------------------------------------------------------

Suit == {"Clubs", "Spades", "Hearts", "Diamonds"}

texture_index_alphabetical(suit) ==
    CASE suit = "Clubs" -> 0
      [] suit = "Diamonds" -> 1
      [] suit = "Hearts" -> 2
      [] suit = "Spades" -> 3

texture_index(suit) ==
    CASE suit = "Clubs" -> 3
      [] suit = "Spades" -> 2
      [] suit = "Hearts" -> 0
      [] suit = "Diamonds" -> 1

\* Cards are 34x48
WIDTH == 34

HEIGHT == 48

\* Matrix4::from_translation, as its four columns
from_translation(v) ==
    << <<1, 0, 0, 0>>, <<0, 1, 0, 0>>, <<0, 0, 1, 0>>, <<v[1], v[2], v[3], 1>> >>

\* `b as u32`
BoolAsU32(b) == IF b THEN 1 ELSE 0

RECURSIVE Ulp(_)
\* the spacing of the f32 values around magnitude a: 1 up to 2^24, then
\* doubling with every further binary digit
Ulp(a) == IF a < 16777216 THEN 1 ELSE 2 * Ulp(a \div 2)

\* `.cast()` of an i32 to f32 (NumCast, `as f32`): the nearest f32, ties to
\* the even significand
cast_f32(n) ==
    LET a == IF n < 0 THEN 0 - n ELSE n
        u == Ulp(a)
        q == a \div u
        r == a % u
        m == IF 2 * r > u \/ (2 * r = u /\ q % 2 = 1) THEN (q + 1) * u ELSE q * u
    IN IF n < 0 THEN 0 - m ELSE m

\* Vector3::cast
cast(v) == <<cast_f32(v[1]), cast_f32(v[2]), cast_f32(v[3])>>

to_instance_facedown_inverted(c) ==
    [model |-> from_translation(cast(c.position)),
     rank |-> c.rank,
     suit |-> texture_index(c.suit),
     facedown |-> BoolAsU32(~c.facedown)]

to_instance(c) ==
    [model |-> from_translation(cast(c.position)),
     rank |-> c.rank,
     suit |-> texture_index(c.suit),
     facedown |-> BoolAsU32(c.facedown)]

\* the ranks of a suit
NumRanks == 13

\* positions on either side of the origin, and one past 2^24, where not
\* every i32 is an f32
CardPositions == {<<x, y, 0>> : x \in {-1, 2, 16777217}, y \in {0, 3}}

Cards ==
    [position : CardPositions, facedown : BOOLEAN, rank : 0..(NumRanks - 1), suit : Suit]

NoCard == [position |-> <<0, 0, 0>>, facedown |-> FALSE, rank |-> 0, suit |-> "Clubs"]

CardIdle ==
    /\ card = NoCard
    /\ cpc = "idle"
    /\ packed = to_instance(NoCard)

ToInstance ==
    /\ cpc = "card"
    /\ packed' = to_instance(card)
    /\ cpc' = "packed"
    /\ UNCHANGED card

\* ------------------------------------------------------------------------
\* winit events, as far as the handlers tell them apart
\* ------------------------------------------------------------------------

MovementKeys == {"W", "Up", "A", "Left", "S", "Down", "D", "Right"}

\* `virtual_keycode: None`
NoKeycode == "None"

KeyCodes == MovementKeys \cup {"Escape", "Space"}

ElementState == {"Pressed", "Released"}

NoSize == <<0, 0>>

\* a WindowEvent: its variant and the variant's fields the code reads
WindowEvent(type, key_state, keycode, new_size) ==
    [type |-> type, state |-> key_state, virtual_keycode |-> keycode, size |-> new_size]

KeyboardInput(key_state, keycode) == WindowEvent("KeyboardInput", key_state, keycode, NoSize)

CloseRequested == WindowEvent("CloseRequested", "Released", NoKeycode, NoSize)

Resized(new_size) == WindowEvent("Resized", "Released", NoKeycode, new_size)

ScaleFactorChanged(new_size) == WindowEvent("ScaleFactorChanged", "Released", NoKeycode, new_size)

Focused == WindowEvent("Focused", "Released", NoKeycode, NoSize)

\* an Event: a WindowEvent for a window, a redraw request for a window, or
\* an event without a window
Event(kind, window_id, wev) == [kind |-> kind, window_id |-> window_id, event |-> wev]

OwnWindow == "own"

OtherWindow == "other"

\* ------------------------------------------------------------------------
\* camera.rs: CameraController, Camera
\* ------------------------------------------------------------------------

\* CameraController::new
NewCameraController(speed) ==
    [speed |-> speed,
     is_forward_pressed |-> FALSE,
     is_backward_pressed |-> FALSE,
     is_left_pressed |-> FALSE,
     is_right_pressed |-> FALSE]

\* `*state == ElementState::Pressed`
is_pressed(key_state) == key_state = "Pressed"

process_events_sticky(self, wev) ==
    IF wev.type = "KeyboardInput" /\ wev.virtual_keycode # NoKeycode
    THEN LET p == is_pressed(wev.state)
         IN CASE wev.virtual_keycode \in {"W", "Up"} ->
                    [self |-> [self EXCEPT !.is_forward_pressed = @ \/ p], result |-> TRUE]
              [] wev.virtual_keycode \in {"A", "Left"} ->
                    [self |-> [self EXCEPT !.is_left_pressed = @ \/ p], result |-> TRUE]
              [] wev.virtual_keycode \in {"S", "Down"} ->
                    [self |-> [self EXCEPT !.is_backward_pressed = @ \/ p], result |-> TRUE]
              [] wev.virtual_keycode \in {"D", "Right"} ->
                    [self |-> [self EXCEPT !.is_right_pressed = @ \/ p], result |-> TRUE]
              [] OTHER -> [self |-> self, result |-> FALSE]
    ELSE [self |-> self, result |-> FALSE]

process_events_any_key(self, wev) ==
    IF wev.type = "KeyboardInput" /\ wev.virtual_keycode # NoKeycode
    THEN LET p == is_pressed(wev.state)
         IN CASE wev.virtual_keycode \in {"W", "Up"} ->
                    [self |-> [self EXCEPT !.is_forward_pressed = p], result |-> TRUE]
              [] wev.virtual_keycode \in {"A", "Left"} ->
                    [self |-> [self EXCEPT !.is_left_pressed = p], result |-> TRUE]
              [] wev.virtual_keycode \in {"S", "Down"} ->
                    [self |-> [self EXCEPT !.is_backward_pressed = p], result |-> TRUE]
              [] wev.virtual_keycode \in {"D", "Right"} ->
                    [self |-> [self EXCEPT !.is_right_pressed = p], result |-> TRUE]
              [] OTHER -> [self |-> self, result |-> TRUE]
    ELSE [self |-> self, result |-> FALSE]

process_events_arrows_press_only(self, wev) ==
    IF wev.type = "KeyboardInput" /\ wev.virtual_keycode # NoKeycode
    THEN LET p == is_pressed(wev.state)
             arrow == wev.virtual_keycode \in {"Up", "Left", "Down", "Right"}
         IN CASE wev.virtual_keycode \in {"W", "Up"} ->
                    [self |-> [self EXCEPT !.is_forward_pressed = (arrow /\ @) \/ p],
                     result |-> TRUE]
              [] wev.virtual_keycode \in {"A", "Left"} ->
                    [self |-> [self EXCEPT !.is_left_pressed = (arrow /\ @) \/ p],
                     result |-> TRUE]
              [] wev.virtual_keycode \in {"S", "Down"} ->
                    [self |-> [self EXCEPT !.is_backward_pressed = (arrow /\ @) \/ p],
                     result |-> TRUE]
              [] wev.virtual_keycode \in {"D", "Right"} ->
                    [self |-> [self EXCEPT !.is_right_pressed = (arrow /\ @) \/ p],
                     result |-> TRUE]
              [] OTHER -> [self |-> self, result |-> FALSE]
    ELSE [self |-> self, result |-> FALSE]

\* CameraController::process_events: the controller afterwards and the
\* returned bool
process_events(self, wev) ==
    IF wev.type = "KeyboardInput" /\ wev.virtual_keycode # NoKeycode
    THEN LET p == is_pressed(wev.state)
         IN CASE wev.virtual_keycode \in {"W", "Up"} ->
                    [self |-> [self EXCEPT !.is_forward_pressed = p], result |-> TRUE]
              [] wev.virtual_keycode \in {"A", "Left"} ->
                    [self |-> [self EXCEPT !.is_left_pressed = p], result |-> TRUE]
              [] wev.virtual_keycode \in {"S", "Down"} ->
                    [self |-> [self EXCEPT !.is_backward_pressed = p], result |-> TRUE]
              [] wev.virtual_keycode \in {"D", "Right"} ->
                    [self |-> [self EXCEPT !.is_right_pressed = p], result |-> TRUE]
              [] OTHER -> [self |-> self, result |-> FALSE]
    ELSE [self |-> self, result |-> FALSE]

\* Vector2::unit_x() * s and Vector2::unit_y() * s
UnitX(s) == <<s, 0>>

UnitY(s) == <<0, s>>

Plus(p, v) == <<p[1] + v[1], p[2] + v[2]>>

Minus(p, v) == <<p[1] - v[1], p[2] - v[2]>>

update_camera_normalised(self, camera) ==
    LET dy == IF self.is_forward_pressed THEN self.speed
              ELSE IF self.is_backward_pressed THEN 0 - self.speed ELSE 0
        dx == IF self.is_right_pressed THEN self.speed
              ELSE IF self.is_left_pressed THEN 0 - self.speed ELSE 0
    IN [camera EXCEPT !.eye = Plus(@, <<dx, dy>>)]

\* CameraController::update_camera: the camera afterwards
update_camera(self, camera) ==
    LET e1 == IF self.is_forward_pressed
              THEN Plus(camera.eye, UnitY(self.speed)) ELSE camera.eye
        e2 == IF self.is_backward_pressed THEN Minus(e1, UnitY(self.speed)) ELSE e1
        e3 == IF self.is_right_pressed THEN Plus(e2, UnitX(self.speed)) ELSE e2
        e4 == IF self.is_left_pressed THEN Minus(e3, UnitX(self.speed)) ELSE e3
    IN [camera EXCEPT !.eye = e4]

\* ---- the arithmetic of the matrices: exact fractions <<numerator,
\* ---- denominator>> with a positive denominator, in lowest terms ----

RECURSIVE GCD(_, _)
GCD(a, b) == IF b = 0 THEN a ELSE GCD(b, a % b)

Abs(n) == IF n < 0 THEN 0 - n ELSE n

Frac(n, d) ==
    LET g == GCD(Abs(n), Abs(d))
    IN IF d < 0 THEN <<(0 - n) \div g, (0 - d) \div g>> ELSE <<n \div g, d \div g>>

FInt(n) == <<n, 1>>

FAdd(x, y) ==
    IF x[1] = 0 THEN y
    ELSE IF y[1] = 0 THEN x
    ELSE Frac(x[1] * y[2] + y[1] * x[2], x[2] * y[2])

FNeg(x) == <<0 - x[1], x[2]>>

FSub(x, y) == FAdd(x, FNeg(y))

FMul(x, y) ==
    IF x[1] = 0 \/ y[1] = 0 THEN <<0, 1>>
    ELSE IF x[2] = 1 /\ y[2] = 1 THEN <<x[1] * y[1], 1>>
    ELSE Frac(x[1] * y[1], x[2] * y[2])

FDiv(x, y) == Frac(x[1] * y[2], x[2] * y[1])

\* a Matrix4 is its four columns, as cgmath stores it: m[column][row]
Matrix4(c0r0, c0r1, c0r2, c0r3, c1r0, c1r1, c1r2, c1r3, c2r0, c2r1, c2r2, c2r3, c3r0, c3r1, c3r2, c3r3) ==
    << <<c0r0, c0r1, c0r2, c0r3>>, <<c1r0, c1r1, c1r2, c1r3>>,
       <<c2r0, c2r1, c2r2, c2r3>>, <<c3r0, c3r1, c3r2, c3r3>> >>

\* row r of Matrix4 * Vector4
MulRow(m, v, r) ==
    FAdd(FAdd(FMul(m[1][r], v[1]), FMul(m[2][r], v[2])),
         FAdd(FMul(m[3][r], v[3]), FMul(m[4][r], v[4])))

\* Matrix4 * Vector4
MulVector(m, v) == <<MulRow(m, v, 1), MulRow(m, v, 2), MulRow(m, v, 3), MulRow(m, v, 4)>>

\* Matrix4 * Matrix4
MulMatrix(a, b) ==
    <<MulVector(a, b[1]), MulVector(a, b[2]), MulVector(a, b[3]), MulVector(a, b[4])>>

Dot3(v, w) == FAdd(FAdd(FMul(v[1], w[1]), FMul(v[2], w[2])), FMul(v[3], w[3]))

Cross3(v, w) ==
    <<FSub(FMul(v[2], w[3]), FMul(v[3], w[2])),
      FSub(FMul(v[3], w[1]), FMul(v[1], w[3])),
      FSub(FMul(v[1], w[2]), FMul(v[2], w[1]))>>

\* OPENGL_TO_WGPU_MATRIX, in Matrix4::new's column order
OPENGL_TO_WGPU_MATRIX ==
    Matrix4(FInt(1), FInt(0), FInt(0), FInt(0),
            FInt(0), FInt(1), FInt(0), FInt(0),
            FInt(0), FInt(0), <<1, 2>>, FInt(0),
            FInt(0), FInt(0), <<1, 2>>, FInt(1))

\* cgmath's Matrix4::look_at_rh(eye, center, up), for a direction
\* center - eye and an up vector that are of length 1 and orthogonal, as
\* they are in build_view_projection_matrix (normalize leaves them)
look_at_rh(eye, center, up) ==
    LET f == <<FSub(center[1], eye[1]), FSub(center[2], eye[2]), FSub(center[3], eye[3])>>
        s == Cross3(f, up)
        u == Cross3(s, f)
    IN Matrix4(s[1], u[1], FNeg(f[1]), FInt(0),
               s[2], u[2], FNeg(f[2]), FInt(0),
               s[3], u[3], FNeg(f[3]), FInt(0),
               FNeg(Dot3(eye, s)), FNeg(Dot3(eye, u)), Dot3(eye, f), FInt(1))

\* cgmath's ortho(left, right, bottom, top, near, far)
ortho(left, right, bottom, top, near, far) ==
    Matrix4(FDiv(FInt(2), FSub(right, left)), FInt(0), FInt(0), FInt(0),
            FInt(0), FDiv(FInt(2), FSub(top, bottom)), FInt(0), FInt(0),
            FInt(0), FInt(0), FDiv(FInt(-2), FSub(far, near)), FInt(0),
            FNeg(FDiv(FAdd(right, left), FSub(right, left))),
            FNeg(FDiv(FAdd(top, bottom), FSub(top, bottom))),
            FNeg(FDiv(FAdd(far, near), FSub(far, near))),
            FInt(1))

\* the camera's aspect: the viewport's width / height (State::resize)
Aspect(camera) == Frac(camera.viewport_size[1], camera.viewport_size[2])

build_view_projection_matrix_uncorrected(camera) ==
    LET eye_3d == <<FInt(camera.eye[1]), FInt(camera.eye[2]), FInt(0)>>
        unit_z == <<FInt(0), FInt(0), FInt(1)>>
        unit_y == <<FInt(0), FInt(1), FInt(0)>>
        view == look_at_rh(<<eye_3d[1], eye_3d[2], FAdd(eye_3d[3], unit_z[3])>>,
                           eye_3d, unit_y)
        horiz_aspect == FMul(Aspect(camera), FInt(camera.zoom))
        proj == ortho(FNeg(horiz_aspect), horiz_aspect,
                      FNeg(FInt(camera.zoom)), FInt(camera.zoom),
                      Frac(camera.znear, 10), Frac(camera.zfar, 10))
    IN MulMatrix(proj, view)

\* Camera::build_view_projection_matrix; znear and zfar are kept in tenths
build_view_projection_matrix(camera) ==
    LET eye_3d == <<FInt(camera.eye[1]), FInt(camera.eye[2]), FInt(0)>>
        unit_z == <<FInt(0), FInt(0), FInt(1)>>
        unit_y == <<FInt(0), FInt(1), FInt(0)>>
        view == look_at_rh(<<eye_3d[1], eye_3d[2], FAdd(eye_3d[3], unit_z[3])>>,
                           eye_3d, unit_y)
        horiz_aspect == FMul(Aspect(camera), FInt(camera.zoom))
        proj == ortho(FNeg(horiz_aspect), horiz_aspect,
                      FNeg(FInt(camera.zoom)), FInt(camera.zoom),
                      Frac(camera.znear, 10), Frac(camera.zfar, 10))
    IN MulMatrix(MulMatrix(OPENGL_TO_WGPU_MATRIX, proj), view)

\* ------------------------------------------------------------------------
\* state.rs: State::new
\* ------------------------------------------------------------------------

\* create_camera
ZOOM == 2

\* znear 0.1 and zfar 100.0, in tenths
ZNEAR == 1

ZFAR == 1000

\* CameraController::new(2.0)
SPEED == 2

create_camera_swapped_planes(size) ==
    [eye |-> <<0, 0>>, viewport_size |-> size, zoom |-> ZOOM, znear |-> ZFAR, zfar |-> ZNEAR]

create_camera(size) ==
    [eye |-> <<0, 0>>, viewport_size |-> size, zoom |-> ZOOM, znear |-> ZNEAR, zfar |-> ZFAR]

\* card::INDICES
INDICES == <<2, 3, 0, 0, 3, 1>>

NumSuits == 4

\* The grid position of (suit, rank), in tenths of a world unit:
\* 1.2 * WIDTH * (rank - 6.0) and 1.2 * HEIGHT * (suit - 1.5).
GridPosition(suit, rank) ==
    <<12 * WIDTH * (rank - 6), (12 * HEIGHT * (2 * suit - 3)) \div 2, 0>>

\* (0..4).flat_map(|suit| (0..13).map(move |rank| Instance { position }))
GridInstances ==
    [i \in 1..(NumSuits * NumRanks) |->
        [position |-> GridPosition((i - 1) \div NumRanks, (i - 1) % NumRanks)]]

\* One call on the surface, the device, the queue, a render pass, the
\* window or the log, with its integer arguments and its result.
Call(name, arg, result) == [call |-> name, arg |-> arg, result |-> result]

\* Instance::to_raw (state.rs): the translation's last column is in the
\* positions' unit
to_raw(instance) == [model |-> from_translation(instance.position)]

\* size_of::<InstanceRaw>(): [[f32; 4]; 4]
SizeOfInstanceRaw == 16 * 4

\* InstanceRaw::desc(): four attributes written out by hand
InstanceRawDesc ==
    [array_stride |-> SizeOfInstanceRaw,
     step_mode |-> "Instance",
     attributes |->
        <<[offset |-> 0, shader_location |-> 5, format |-> "Float32x4"],
          [offset |-> 4 * 4, shader_location |-> 6, format |-> "Float32x4"],
          [offset |-> 8 * 4, shader_location |-> 7, format |-> "Float32x4"],
          [offset |-> 12 * 4, shader_location |-> 8, format |-> "Float32x4"]>>]

RECURSIVE Repetitions(_, _, _, _)
\* the repetitions of attributes! from shader_location `location` on
Repetitions(formats, array, location, off) ==
    IF location = count(formats)
    THEN array
    ELSE Repetitions(formats,
                     [array EXCEPT ![location + 1] =
                        [offset |-> off,
                         shader_location |-> location,
                         format |-> formats[location + 1]]],
                     location + 1,
                     off + vertex_format_size(formats[location + 1]))

\* the value of an attributes! invocation that the rule matches
attributes(inv) ==
    Repetitions(inv.formats, [i \in 1..count(inv.formats) |-> DefaultAttribute], 0, 0)

\* card::Vertex::BUFFER_LAYOUT
VertexBufferLayout ==
    [array_stride |-> SizeOfVertex,
     step_mode |-> "Vertex",
     attributes |-> attributes(VertexInvocation)]

\* create_vertex_state: its VERTEX_BUFFERS
create_vertex_state ==
    [entry_point |-> "vs_main", buffers |-> <<VertexBufferLayout, InstanceRawDesc>>]

\* State::new for a window of inner size `size`.  `effects` is the model's
\* record of the calls the current handler has made, in order.
NewState(size) ==
    LET camera == create_camera(size)
        uniform == build_view_projection_matrix(camera)
    IN [size |-> size,
        config |-> [width |-> size[1], height |-> size[2]],
        surface |-> [width |-> size[1], height |-> size[2]],
        camera |-> camera,
        camera_uniform |-> uniform,
        camera_buffer |-> uniform,
        camera_controller |-> NewCameraController(SPEED),
        render_pipeline |-> [vertex |-> create_vertex_state],
        instances |-> GridInstances,
        instance_buffer |-> [i \in DOMAIN GridInstances |-> to_raw(GridInstances[i])],
        num_indices |-> Len(INDICES),
        effects |-> <<>>]

\* ------------------------------------------------------------------------
\* state.rs: State::resize, input, update, render
\* ------------------------------------------------------------------------

resize_either_positive(self, new_size) ==
    LET logged == Call("info", new_size, "")
    IN IF new_size[1] > 0 \/ new_size[2] > 0
       THEN LET config == [width |-> new_size[1], height |-> new_size[2]]
            IN [self EXCEPT !.size = new_size,
                            !.config = config,
                            !.surface = config,
                            !.camera.viewport_size = new_size,
                            !.effects = @ \o <<Call("configure", new_size, ""), logged>>]
       ELSE [self EXCEPT !.effects = Append(@, logged)]

resize_stale_camera(self, new_size) ==
    LET logged == Call("info", new_size, "")
    IN IF new_size[1] > 0 /\ new_size[2] > 0
       THEN LET config == [width |-> new_size[1], height |-> new_size[2]]
            IN [self EXCEPT !.size = new_size,
                            !.config = config,
                            !.surface = config,
                            !.effects = @ \o <<Call("configure", new_size, ""), logged>>]
       ELSE [self EXCEPT !.effects = Append(@, logged)]

resize(self, new_size) ==
    LET logged == Call("info", new_size, "")
    IN IF new_size[1] > 0 /\ new_size[2] > 0
       THEN LET config == [width |-> new_size[1], height |-> new_size[2]]
            IN [self EXCEPT !.size = new_size,
                            !.config = config,
                            !.surface = config,
                            !.camera.viewport_size = new_size,
                            !.effects = @ \o <<Call("configure", new_size, ""), logged>>]
       ELSE [self EXCEPT !.effects = Append(@, logged)]

\* State::input: the state afterwards and the returned bool
input(self, wev) ==
    LET r == process_events(self.camera_controller, wev)
    IN [self |-> [self EXCEPT !.camera_controller = r.self], result |-> r.result]

update_stale_uniform(self) ==
    LET camera == update_camera(self.camera_controller, self.camera)
        uniform == build_view_projection_matrix(self.camera)
    IN [self EXCEPT !.camera = camera,
                    !.camera_uniform = uniform,
                    !.camera_buffer = uniform,
                    !.effects = Append(@, Call("write_buffer", <<0>>, ""))]

update_reorders_instances(self) ==
    LET camera == update_camera(self.camera_controller, self.camera)
        uniform == build_view_projection_matrix(camera)
    IN [self EXCEPT !.camera = camera,
                    !.camera_uniform = uniform,
                    !.camera_buffer = uniform,
                    !.instances = Append(Tail(@), Head(@)),
                    !.effects = Append(@, Call("write_buffer", <<0>>, ""))]

\* queue.write_buffer(&camera_buffer, 0, cast_slice(&[camera_uniform]))
write_camera_buffer(self) ==
    [self EXCEPT !.camera_buffer = self.camera_uniform,
                 !.effects = Append(@, Call("write_buffer", <<0>>, ""))]

\* camera_uniform.update_view_proj(&camera)
update_view_proj(self) ==
    [self EXCEPT !.camera_uniform = build_view_projection_matrix(self.camera)]

\* camera_controller.update_camera(&mut camera)
move_camera(self) ==
    [self EXCEPT !.camera = update_camera(self.camera_controller, self.camera)]

\* State::update: the three calls, in the source's order
update(self) == write_camera_buffer(update_view_proj(move_camera(self)))

\* what Surface::get_current_texture can answer
SurfaceError == {"Timeout", "Outdated", "Lost", "OutOfMemory"}

AcquireResults == {"Ok"} \cup SurfaceError

RenderPass_single_instance(self) ==
    <<Call("create_view", <<>>, ""),
      Call("create_command_encoder", <<>>, ""),
      Call("begin_render_pass", <<>>, ""),
      Call("set_pipeline", <<>>, ""),
      Call("set_bind_group", <<0>>, ""),
      Call("set_bind_group", <<1>>, ""),
      Call("set_vertex_buffer", <<0>>, ""),
      Call("set_vertex_buffer", <<1>>, ""),
      Call("set_index_buffer", <<>>, ""),
      Call("draw_indexed", <<0, self.num_indices, 0, 0, 1>>, "")>>

\* the calls of a render pass, from begin_render_pass to the draw
RenderPass(self) ==
    <<Call("create_view", <<>>, ""),
      Call("create_command_encoder", <<>>, ""),
      Call("begin_render_pass", <<>>, ""),
      Call("set_pipeline", <<>>, ""),
      Call("set_bind_group", <<0>>, ""),
      Call("set_bind_group", <<1>>, ""),
      Call("set_vertex_buffer", <<0>>, ""),
      Call("set_vertex_buffer", <<1>>, ""),
      Call("set_index_buffer", <<>>, ""),
      Call("draw_indexed", <<0, self.num_indices, 0, 0, Len(self.instances)>>, "")>>

\* State::render, when get_current_texture answers `acquired`: the state
\* afterwards and the Result
render(self, acquired) ==
    IF acquired # "Ok"
    THEN [self |-> [self EXCEPT !.effects =
                        Append(@, Call("get_current_texture", <<>>, acquired))],
          result |-> acquired]
    ELSE [self |-> [self EXCEPT !.effects =
                        @ \o <<Call("get_current_texture", <<>>, acquired)>>
                          \o RenderPass(self)
                          \o <<Call("submit", <<>>, ""), Call("present", <<>>, "")>>],
          result |-> "Ok"]

\* ------------------------------------------------------------------------
\* lib.rs: the event handlers and the event loop
\* ------------------------------------------------------------------------

\* Option<ControlFlow>
None == "None"

SomeExit == "Some(Exit)"

handle_window_event_escape_ignored(self, wev) ==
    CASE wev.type = "CloseRequested" ->
                [self |-> self, result |-> SomeExit]
      [] wev.type = "Resized" ->
                [self |-> resize(self, wev.size), result |-> None]
      [] wev.type = "ScaleFactorChanged" ->
                [self |-> resize(self, wev.size), result |-> None]
      [] OTHER -> [self |-> self, result |-> None]

handle_window_event(self, wev) ==
    CASE \/ wev.type = "CloseRequested"
         \/ /\ wev.type = "KeyboardInput"
            /\ wev.state = "Pressed"
            /\ wev.virtual_keycode = "Escape" ->
                [self |-> self, result |-> SomeExit]
      [] wev.type = "Resized" ->
                [self |-> resize(self, wev.size), result |-> None]
      [] wev.type = "ScaleFactorChanged" ->
                [self |-> resize(self, wev.size), result |-> None]
      [] OTHER -> [self |-> self, result |-> None]

handle_redraw_event_lost_ignored(self, acquired) ==
    LET r == render(update(self), acquired)
    IN CASE r.result = "OutOfMemory" -> [self |-> r.self, result |-> SomeExit]
         [] OTHER -> [self |-> r.self, result |-> None]

handle_redraw_event_oom_continues(self, acquired) ==
    LET r == render(update(self), acquired)
    IN CASE r.result = "Ok" -> [self |-> r.self, result |-> None]
         [] r.result = "Lost" -> [self |-> resize(r.self, r.self.size), result |-> None]
         [] OTHER ->
                [self |-> [r.self EXCEPT !.effects = Append(@, Call("eprintln", <<>>, r.result))],
                 result |-> None]

handle_redraw_event_errors_reconfigure(self, acquired) ==
    LET r == render(update(self), acquired)
    IN CASE r.result = "Ok" -> [self |-> r.self, result |-> None]
         [] r.result = "OutOfMemory" -> [self |-> r.self, result |-> SomeExit]
         [] OTHER -> [self |-> resize(r.self, r.self.size), result |-> None]

handle_redraw_event_rolls_back(self, acquired) ==
    LET r == render(update(self), acquired)
        kept == [r.self EXCEPT !.camera = self.camera,
                               !.camera_uniform = self.camera_uniform,
                               !.camera_buffer = self.camera_buffer]
    IN CASE r.result = "Ok" -> [self |-> r.self, result |-> None]
         [] r.result = "Lost" -> [self |-> resize(kept, kept.size), result |-> None]
         [] r.result = "OutOfMemory" -> [self |-> kept, result |-> SomeExit]
         [] OTHER ->
                [self |-> [kept EXCEPT !.effects = Append(@, Call("eprintln", <<>>, r.result))],
                 result |-> None]

\* the match of handle_redraw_event on what State::render returned
match_render(r) ==
    CASE r.result = "Ok" -> [self |-> r.self, result |-> None]
      [] r.result = "Lost" -> [self |-> resize(r.self, r.self.size), result |-> None]
      [] r.result = "OutOfMemory" -> [self |-> r.self, result |-> SomeExit]
      [] OTHER ->
             [self |-> [r.self EXCEPT !.effects = Append(@, Call("eprintln", <<>>, r.result))],
              result |-> None]

\* handle_redraw_event: State::update, then the match on State::render
handle_redraw_event(self, acquired) == match_render(render(update(self), acquired))

\* handle_event: the match guard of the first arm calls State::input, and
\* an event that input consumed falls through to the `_ => None` arm.
handle_event(self, ev, acquired) ==
    IF ev.kind = "WindowEvent" /\ ev.window_id = OwnWindow
    THEN LET i == input(self, ev.event)
         IN IF ~i.result
            THEN handle_window_event(i.self, ev.event)
            ELSE [self |-> i.self, result |-> None]
    ELSE IF ev.kind = "RedrawRequested" /\ ev.window_id = OwnWindow
    THEN handle_redraw_event(self, acquired)
    ELSE IF ev.kind = "MainEventsCleared"
    THEN [self |-> [self EXCEPT !.effects = Append(@, Call("request_redraw", <<>>, ""))],
          result |-> None]
    ELSE [self |-> self, result |-> None]

Closure_resumes_polling(ev, acquired) ==
    LET r == handle_event([state EXCEPT !.effects = <<>>], ev, acquired)
    IN /\ state' = r.self
       /\ returned' = r.result
       /\ control_flow' = IF r.result = SomeExit THEN "Exit" ELSE "Poll"
       /\ event' = ev

\* the closure handed to event_loop.run, for one event
Closure(ev, acquired) ==
    LET r == handle_event([state EXCEPT !.effects = <<>>], ev, acquired)
    IN /\ state' = r.self
       /\ returned' = r.result
       /\ control_flow' = IF r.result = SomeExit THEN "Exit" ELSE control_flow
       /\ event' = ev

\* sizes the windowing system reports: minimised ones, with a zero
\* dimension, and positive ones
ZeroSizes == {<<0, 0>>, <<0, 1>>, <<1, 0>>}

PositiveSizes == {<<w, 1>> : w \in 1..MaxDim} \cup {<<1, MaxDim>>}

ReportedSizes == ZeroSizes \cup PositiveSizes

InitialSizes == PositiveSizes

\* the keyboard events of the event loop's runs
LoopKeys ==
    {KeyboardInput(ks, kc) : ks \in ElementState, kc \in {"W", "S", "Escape"}}
        \cup {KeyboardInput("Pressed", "Space")}

ResizeEvents ==
    {Resized(sz) : sz \in ReportedSizes}
        \cup {ScaleFactorChanged(sz) : sz \in {<<0, 1>>, <<1, MaxDim>>}}

OwnWindowEvents ==
    {Event("WindowEvent", OwnWindow, wev) :
        wev \in LoopKeys \cup ResizeEvents \cup {CloseRequested, Focused}}

OtherWindowEvents ==
    {Event("WindowEvent", OtherWindow, wev) :
        wev \in {CloseRequested, Resized(<<MaxDim, 1>>)}}
        \cup {Event("RedrawRequested", OtherWindow, Focused)}

WindowlessEvents == {Event("MainEventsCleared", "", Focused)}

IsResize(ev) ==
    /\ ev.kind = "WindowEvent"
    /\ ev.window_id = OwnWindow
    /\ ev.event.type \in {"Resized", "ScaleFactorChanged"}

IsPositive(sz) == sz[1] > 0 /\ sz[2] > 0

\* the latest positive resize, kept beside the program
Latest(ev) == IF IsResize(ev) /\ IsPositive(ev.event.size) THEN ev.event.size ELSE latest

EyeInBounds(eye) ==
    /\ eye[1] >= 0 - MaxEye * SPEED /\ eye[1] <= MaxEye * SPEED
    /\ eye[2] >= 0 - MaxEye * SPEED /\ eye[2] <= MaxEye * SPEED

\* a WindowEvent for the State's window
OwnWindowEvent ==
    /\ lpc = "running"
    /\ \E ev \in OwnWindowEvents :
          /\ Closure(ev, "Ok")
          /\ latest' = Latest(ev)
    /\ UNCHANGED <<lpc, history>>

\* RedrawRequested for the State's window; the backend answers the
\* acquisition
RedrawRequested ==
    /\ lpc = "running"
    /\ EyeInBounds(update_camera(state.camera_controller, state.camera).eye)
    /\ \E acquired \in AcquireResults :
          Closure(Event("RedrawRequested", OwnWindow, Focused), acquired)
    /\ UNCHANGED <<lpc, latest, history>>

\* an event for another window, or one without a window
OtherEvent ==
    /\ lpc = "running"
    /\ \E ev \in OtherWindowEvents \cup WindowlessEvents : Closure(ev, "Ok")
    /\ UNCHANGED <<lpc, latest, history>>

\* the loop leaves once *control_flow is Exit: the closure sees
\* LoopDestroyed, and nothing after it
LoopDestroyed ==
    /\ lpc = "running"
    /\ control_flow = "Exit"
    /\ Closure(Event("LoopDestroyed", "", Focused), "Ok")
    /\ lpc' = "exited"
    /\ UNCHANGED <<latest, history>>

LoopIdle ==
    /\ state = NewState(<<1, 1>>)
    /\ control_flow = "Poll"
    /\ event = Event("NewEvents", "", Focused)
    /\ returned = None
    /\ lpc = "idle"
    /\ latest = <<1, 1>>
    /\ history = <<>>

RunIdle ==
    /\ rpc = "idle"
    /\ setup = "ok"
    /\ log = <<>>
    /\ exit_status = <<>>

\* run_inner up to event_loop.run: State::new for the window's inner size
LoopInit ==
    /\ \E sz \in InitialSizes :
          /\ state = NewState(sz)
          /\ latest = sz
    /\ control_flow = "Poll"
    /\ event = Event("NewEvents", "", Focused)
    /\ returned = None
    /\ lpc = "running"
    /\ history = <<>>

Init == LayoutIdle /\ CardIdle /\ LoopInit /\ RunIdle

Next ==
    \/ OwnWindowEvent /\ UNCHANGED <<layout_vars, card_vars, run_vars>>
    \/ RedrawRequested /\ UNCHANGED <<layout_vars, card_vars, run_vars>>
    \/ OtherEvent /\ UNCHANGED <<layout_vars, card_vars, run_vars>>
    \/ LoopDestroyed /\ UNCHANGED <<layout_vars, card_vars, run_vars>>

Spec == Init /\ [][Next]_vars

\* ---- the layout macro on its own ----

LayoutInit ==
    /\ invocation \in Invocations
    /\ apc = "invoked"
    /\ data = <<>>
    /\ shader_location = 0
    /\ offset = 0

InitLayout == LayoutInit /\ CardIdle /\ LoopIdle /\ RunIdle

NextLayout ==
    \/ AttributesMatch /\ UNCHANGED <<card_vars, loop_vars, run_vars>>
    \/ AttributesRepeat /\ UNCHANGED <<card_vars, loop_vars, run_vars>>
    \/ AttributesYield /\ UNCHANGED <<card_vars, loop_vars, run_vars>>

SpecLayout == InitLayout /\ [][NextLayout]_vars

\* ---- Card::to_instance on its own ----

CardInit ==
    /\ card \in Cards
    /\ cpc = "card"
    /\ packed = to_instance(NoCard)

InitCard == LayoutIdle /\ CardInit /\ LoopIdle /\ RunIdle

NextCard == ToInstance /\ UNCHANGED <<layout_vars, loop_vars, run_vars>>

SpecCard == InitCard /\ [][NextCard]_vars

\* ---- the camera controller on its own: keyboard events, and window
\* ---- events that are not keyboard events ----

AllKeys == {KeyboardInput(ks, kc) : ks \in ElementState, kc \in KeyCodes \cup {NoKeycode}}

KeyEvent ==
    /\ lpc = "running"
    /\ Len(history) < MaxKeyEvents
    /\ \E wev \in AllKeys :
          /\ Closure(Event("WindowEvent", OwnWindow, wev), "Ok")
          /\ history' = Append(history, wev)
    /\ UNCHANGED <<lpc, latest>>

NonKeyEvents == {CloseRequested, Focused}

NonKeyEvent ==
    /\ lpc = "running"
    /\ Len(history) < MaxKeyEvents
    /\ \E wev \in NonKeyEvents :
          /\ Closure(Event("WindowEvent", OwnWindow, wev), "Ok")
          /\ history' = Append(history, wev)
    /\ UNCHANGED <<lpc, latest>>

InitKeys == LayoutIdle /\ CardIdle /\ LoopInit /\ RunIdle

NextKeys ==
    \/ KeyEvent /\ UNCHANGED <<layout_vars, card_vars, run_vars>>
    \/ NonKeyEvent /\ UNCHANGED <<layout_vars, card_vars, run_vars>>

SpecKeys == InitKeys /\ [][NextKeys]_vars

\* ---- CameraController::update_camera on its own ----

Speeds == {1, SPEED, 3}

Controllers ==
    [speed : Speeds,
     is_forward_pressed : BOOLEAN,
     is_backward_pressed : BOOLEAN,
     is_left_pressed : BOOLEAN,
     is_right_pressed : BOOLEAN]

\* a State whose controller is c and whose eye has made kx, ky steps
StateAt(c, kx, ky) ==
    [NewState(<<1, 1>>) EXCEPT !.camera_controller = c,
                               !.camera.eye = <<kx * c.speed, ky * c.speed>>]

CameraInit ==
    /\ \E c \in Controllers, kx \in (0 - MaxEye)..MaxEye, ky \in (0 - MaxEye)..MaxEye :
          state = StateAt(c, kx, ky)
    /\ control_flow = "Poll"
    /\ event = Event("NewEvents", "", Focused)
    /\ returned = None
    /\ lpc = "running"
    /\ latest = <<1, 1>>
    /\ history = <<>>

\* one call of update_camera on the State's camera
UpdateCamera ==
    /\ lpc = "running"
    /\ state' = [state EXCEPT !.camera = update_camera(state.camera_controller, state.camera)]
    /\ lpc' = "updated"
    /\ UNCHANGED <<control_flow, event, returned, latest, history>>

InitCamera == LayoutIdle /\ CardIdle /\ CameraInit /\ RunIdle

NextCamera == UpdateCamera /\ UNCHANGED <<layout_vars, card_vars, run_vars>>

SpecCamera == InitCamera /\ [][NextCamera]_vars

\* ---- Camera::build_view_projection_matrix on its own ----

\* (znear, zfar) in tenths: create_camera's planes, and a second pair
Planes == {<<ZNEAR, ZFAR>>, <<5, 20>>}

\* cameras with zoom > 0 and aspect > 0
Cameras ==
    {[eye |-> <<ex, ey>>, viewport_size |-> <<w, h>>, zoom |-> z,
      znear |-> p[1], zfar |-> p[2]] :
        ex \in {-1, 2}, ey \in {0, 3}, w \in 1..MaxView, h \in 1..MaxView,
        z \in 1..MaxView, p \in Planes}

ProjectionInit ==
    /\ \E c \in Cameras : state = [NewState(c.viewport_size) EXCEPT !.camera = c]
    /\ control_flow = "Poll"
    /\ event = Event("NewEvents", "", Focused)
    /\ returned = None
    /\ lpc = "running"
    /\ latest = <<1, 1>>
    /\ history = <<>>

\* CameraUniform::update_view_proj for the State's camera
UpdateViewProj ==
    /\ lpc = "running"
    /\ state' = [state EXCEPT !.camera_uniform = build_view_projection_matrix(state.camera)]
    /\ lpc' = "projected"
    /\ UNCHANGED <<control_flow, event, returned, latest, history>>

InitProjection == LayoutIdle /\ CardIdle /\ ProjectionInit /\ RunIdle

NextProjection == UpdateViewProj /\ UNCHANGED <<layout_vars, card_vars, run_vars>>

SpecProjection == InitProjection /\ [][NextProjection]_vars

\* ---- redraw ticks under constant flags ----

\* the keys pressed and released before the first tick
TickKeys ==
    {KeyboardInput(ks, kc) : ks \in ElementState, kc \in {"W", "S", "D", "Left"}}

\* a key event for the State's window, before the first redraw
TickKey ==
    /\ lpc = "running"
    /\ history = <<>>
    /\ \E wev \in TickKeys : Closure(Event("WindowEvent", OwnWindow, wev), "Ok")
    /\ UNCHANGED <<lpc, latest, history>>

\* RedrawRequested for the State's window; the backend answers the
\* acquisition, and the answer is kept in history
Tick ==
    /\ lpc = "running"
    /\ Len(history) < MaxTicks
    /\ \E acquired \in AcquireResults :
          /\ Closure(Event("RedrawRequested", OwnWindow, Focused), acquired)
          /\ history' = Append(history, acquired)
    /\ UNCHANGED <<lpc, latest>>

InitTicks == LayoutIdle /\ CardIdle /\ LoopInit /\ RunIdle

NextTicks ==
    \/ TickKey /\ UNCHANGED <<layout_vars, card_vars, run_vars>>
    \/ Tick /\ UNCHANGED <<layout_vars, card_vars, run_vars>>
    \/ LoopDestroyed /\ UNCHANGED <<layout_vars, card_vars, run_vars>>

SpecTicks == InitTicks /\ [][NextTicks]_vars

\* ---- the process, from main to its exit ----

\* the steps of setup that end in `?`: the window (lib.rs), and in
\* State::new the surface, the adapter, the device and the atlas texture
SetupFailures == {"window", "surface", "adapter", "device", "texture"}

SetupOutcomes == {"ok"} \cup SetupFailures

\* what run() evaluates to: both arms of its match are of type ()
RunValue == "()"

\* the status main's return value gives the process: 1 for an Err, else 0
ExitStatus(value) == IF value = "Err" THEN 1 ELSE 0

\* main calls run, which sets up logging and calls run_inner
MainCallsRun ==
    /\ rpc = "main"
    /\ rpc' = "run_inner"
    /\ UNCHANGED <<loop_vars, setup, log, exit_status>>

\* run_inner: a failing step returns its error through `?` before
\* event_loop.run is reached; otherwise the event loop starts
RunInner ==
    /\ rpc = "run_inner"
    /\ IF setup \in SetupFailures
       THEN /\ rpc' = "run_inner_err"
            /\ UNCHANGED loop_vars
       ELSE /\ \E sz \in InitialSizes :
                  /\ state' = NewState(sz)
                  /\ latest' = sz
            /\ lpc' = "running"
            /\ rpc' = "event_loop"
            /\ UNCHANGED <<control_flow, event, returned, history>>
    /\ UNCHANGED <<setup, log, exit_status>>

\* run's match on run_inner's Err: error!("{e:?}")
RunLogsError ==
    /\ rpc = "run_inner_err"
    /\ log' = Append(log, [level |-> "error", error |-> setup])
    /\ rpc' = "run_returned"
    /\ UNCHANGED <<loop_vars, setup, exit_status>>

\* main returns what block_on(run()) evaluates to, and the process ends
MainReturns ==
    /\ rpc = "run_returned"
    /\ exit_status' = <<ExitStatus(RunValue)>>
    /\ rpc' = "exited"
    /\ UNCHANGED <<loop_vars, setup, log>>

\* event_loop.run does not return: once the loop is destroyed after
\* ControlFlow::Exit the process ends with status 0
EventLoopExits ==
    /\ rpc = "event_loop"
    /\ lpc = "exited"
    /\ exit_status' = <<0>>
    /\ rpc' = "exited"
    /\ UNCHANGED <<loop_vars, setup, log>>

RunInit ==
    /\ rpc = "main"
    /\ setup \in SetupOutcomes
    /\ log = <<>>
    /\ exit_status = <<>>

InitRun == LayoutIdle /\ CardIdle /\ LoopIdle /\ RunInit

NextRun ==
    \/ MainCallsRun /\ UNCHANGED <<layout_vars, card_vars>>
    \/ RunInner /\ UNCHANGED <<layout_vars, card_vars>>
    \/ RunLogsError /\ UNCHANGED <<layout_vars, card_vars>>
    \/ MainReturns /\ UNCHANGED <<layout_vars, card_vars>>
    \/ EventLoopExits /\ UNCHANGED <<layout_vars, card_vars>>
    \/ OwnWindowEvent /\ UNCHANGED <<layout_vars, card_vars, run_vars>>
    \/ RedrawRequested /\ UNCHANGED <<layout_vars, card_vars, run_vars>>
    \/ OtherEvent /\ UNCHANGED <<layout_vars, card_vars, run_vars>>
    \/ LoopDestroyed /\ UNCHANGED <<layout_vars, card_vars, run_vars>>

SpecRun == InitRun /\ [][NextRun]_vars

\* ------------------------------------------------------------------------
\* Properties
\* ------------------------------------------------------------------------

RECURSIVE SumSizes(_, _)
\* the byte sizes of the first n formats, summed
SumSizes(formats, n) ==
    IF n = 0 THEN 0 ELSE SumSizes(formats, n - 1) + vertex_format_size(formats[n])

Supported(formats) == \A i \in DOMAIN formats : formats[i] \notin Todo

\* the base slot an invocation asks for
BaseSlot(inv) == IF inv.start_location = NoPrefix THEN 0 ELSE inv.start_location[1]

Expanded == apc \in {"done", "no_rule"}

\* C1: for a base slot b and N supported formats the builder yields exactly
\* N descriptors in input order, descriptor i with slot b + i, the i-th
\* format and the summed sizes of the formats before it as offset; for
\* [Float32x3, Float32x2] from base 0 that is offsets 0 and 12, slots 0 and
\* 1, and 20 bytes in total.
C1_DescriptorsFromBase ==
    (Expanded /\ Supported(invocation.formats)) =>
        /\ apc = "done"
        /\ Len(data) = Len(invocation.formats)
        /\ \A i \in DOMAIN data :
              /\ data[i].shader_location = BaseSlot(invocation) + (i - 1)
              /\ data[i].format = invocation.formats[i]
              /\ data[i].offset = SumSizes(invocation.formats, i - 1)
        /\ invocation = VertexInvocation =>
              /\ data = <<[offset |-> 0, shader_location |-> 0, format |-> "Float32x3"],
                          [offset |-> 12, shader_location |-> 1, format |-> "Float32x2"]>>
              /\ offset = 20

\* the array_stride card.rs declares beside each of its two invocations
ArrayStride(inv) == IF inv = VertexInvocation THEN SizeOfVertex ELSE SizeOfInstance

\* C2: in each of the two declared layouts (Vertex from slot 0, Instance
\* from slot 5) the offsets increase strictly, the slots are contiguous from
\* the declared base (0..1 and 5..11) and the field sizes sum to the
\* array_stride (20 and 76).
C2_DeclaredLayouts ==
    (Expanded /\ invocation \in {VertexInvocation, InstanceInvocation}) =>
        /\ apc = "done"
        /\ \A i, j \in DOMAIN data : i < j => data[i].offset < data[j].offset
        /\ {data[i].shader_location : i \in DOMAIN data} =
              BaseSlot(invocation)..(BaseSlot(invocation) + Len(invocation.formats) - 1)
        /\ offset = ArrayStride(invocation)
        /\ ArrayStride(VertexInvocation) = 20
        /\ ArrayStride(InstanceInvocation) = 76

Directions == {"forward", "backward", "left", "right"}

KeysOf(d) ==
    CASE d = "forward" -> {"W", "Up"}
      [] d = "backward" -> {"S", "Down"}
      [] d = "left" -> {"A", "Left"}
      [] d = "right" -> {"D", "Right"}

FlagOf(c, d) ==
    CASE d = "forward" -> c.is_forward_pressed
      [] d = "backward" -> c.is_backward_pressed
      [] d = "left" -> c.is_left_pressed
      [] d = "right" -> c.is_right_pressed

RECURSIVE NetPress(_, _)
\* the net press state of direction d's key after the keyboard events h:
\* what the last event on the key said, released if there was none
NetPress(h, d) ==
    IF h = <<>> THEN FALSE
    ELSE LET e == h[Len(h)]
         IN IF e.virtual_keycode \in KeysOf(d)
            THEN e.state = "Pressed"
            ELSE NetPress(SubSeq(h, 1, Len(h) - 1), d)

\* h ends with press, press, release of key k
EndsPressPressRelease(h, k) ==
    /\ Len(h) >= 3
    /\ SubSeq(h, Len(h) - 2, Len(h)) =
          <<KeyboardInput("Pressed", k), KeyboardInput("Pressed", k),
            KeyboardInput("Released", k)>>

\* C3: from all flags false, after any sequence of press and release events
\* on the movement keys each flag is the net press state of its key;
\* presses are idempotent, so press, press, release leaves the flag as a
\* single release does: false.
C3_FlagsAreNetPress ==
    /\ \A d \in Directions : FlagOf(state.camera_controller, d) = NetPress(history, d)
    /\ \A d \in Directions : \A k \in KeysOf(d) :
          EndsPressPressRelease(history, k) => ~FlagOf(state.camera_controller, d)

C3_Witness ==
    /\ EndsPressPressRelease(history, "W")
    /\ ~state.camera_controller.is_forward_pressed

\* C4: one update_camera moves the eye by speed * (right - left) on X and
\* speed * (forward - backward) on Y, each flag 0 or 1 and the axes
\* independent.
C4_Displacement ==
    [][(lpc = "running" /\ lpc' = "updated") =>
          LET c == state.camera_controller
              eye == state.camera.eye
          IN state'.camera.eye =
                <<eye[1] + c.speed * (BoolAsU32(c.is_right_pressed) - BoolAsU32(c.is_left_pressed)),
                  eye[2] + c.speed * (BoolAsU32(c.is_forward_pressed)
                                        - BoolAsU32(c.is_backward_pressed))>>]_vars

C4_Witness ==
    /\ lpc = "updated"
    /\ state.camera_controller.is_forward_pressed
    /\ state.camera_controller.is_backward_pressed
    /\ state.camera_controller.is_right_pressed
    /\ ~state.camera_controller.is_left_pressed
    /\ state.camera.eye = <<2 * state.camera_controller.speed, 0>>

\* C5: texture_index is a bijection from the four suits onto 0..3 with
\* Hearts 0, Diamonds 1, Spades 2, Clubs 3.
C5_TextureIndexBijection ==
    /\ cpc = "packed" =>
          packed.suit = (CASE card.suit = "Hearts" -> 0
                           [] card.suit = "Diamonds" -> 1
                           [] card.suit = "Spades" -> 2
                           [] card.suit = "Clubs" -> 3)
    /\ \A s, t \in Suit : texture_index(s) = texture_index(t) => s = t
    /\ {texture_index(s) : s \in Suit} = 0..3

C5_Witness == cpc = "packed" /\ card.suit = "Clubs" /\ packed.suit = 3

\* whether instance record r carries the pair (rank, suit)
Carries(r, rank, suit) ==
    /\ {"rank", "suit"} \subseteq DOMAIN r
    /\ r.rank = rank
    /\ r.suit = suit

\* C6: setup builds exactly 52 instance records, one per (suit, rank) with
\* suit in 0..3 and rank in 0..12, each carrying a (rank, suit) pair no other
\* record carries, at X = 1.2 * WIDTH * (rank - 6) and
\* Y = 1.2 * HEIGHT * (suit - 1.5), so that no two share a position.
C6_GridRecords ==
    /\ Len(state.instances) = 52
    /\ \A suit \in 0..3, rank \in 0..12 :
          \E i \in DOMAIN state.instances :
              /\ Carries(state.instances[i], rank, suit)
              /\ \A j \in DOMAIN state.instances :
                    Carries(state.instances[j], rank, suit) => j = i
              /\ 10 * state.instances[i].position[1] = 10 * 12 * WIDTH * (rank - 6)
              /\ 10 * state.instances[i].position[2] = 12 * HEIGHT * (10 * suit - 15)
    /\ \A i, j \in DOMAIN state.instances :
          state.instances[i].position = state.instances[j].position => i = j

\* the calls named `name` among the calls of the last handler
CallsOf(name) == {i \in DOMAIN state.effects : state.effects[i].call = name}

IsOwnRedraw(ev) == ev.kind = "RedrawRequested" /\ ev.window_id = OwnWindow

\* what get_current_texture answered in the last handler
Acquired(st) ==
    LET at == {i \in DOMAIN st.effects : st.effects[i].call = "get_current_texture"}
    IN IF at = {} THEN "none" ELSE st.effects[CHOOSE i \in at : TRUE].result

\* C7: a resize request with width 0 or height 0 is a no-op: size, the
\* surface configuration and the camera's viewport stay, the surface is not
\* reconfigured, and the handler returns normally.
C7_ZeroResizeIsNoOp ==
    [][(IsResize(event') /\ ~IsPositive(event'.event.size) /\ lpc' = "running") =>
          /\ state'.size = state.size
          /\ state'.config = state.config
          /\ state'.surface = state.surface
          /\ state'.camera = state.camera
          /\ \A i \in DOMAIN state'.effects : state'.effects[i].call # "configure"
          /\ returned' = None
          /\ control_flow' = control_flow]_vars

C7_Witness ==
    /\ event = Event("WindowEvent", OwnWindow, Resized(<<0, 1>>))
    /\ state.size = <<MaxDim, 1>>
    /\ state.camera.viewport_size = <<MaxDim, 1>>

\* C8: after any sequence of resize events the stored size, the surface
\* configuration and the camera's viewport are those of the latest resize
\* with two positive dimensions, or the initial window size; each such
\* resize reconfigures the surface once, with the new dimensions.
C8_SizeIsLatestPositiveResize ==
    /\ state.size = latest
    /\ state.config = [width |-> latest[1], height |-> latest[2]]
    /\ state.surface = [width |-> latest[1], height |-> latest[2]]
    /\ state.camera.viewport_size = latest
    /\ (IsResize(event) /\ IsPositive(event.event.size)) =>
          /\ Cardinality(CallsOf("configure")) = 1
          /\ \A i \in CallsOf("configure") : state.effects[i].arg = event.event.size

C8_Witness ==
    /\ event = Event("WindowEvent", OwnWindow, ScaleFactorChanged(<<0, 1>>))
    /\ latest = <<1, MaxDim>>
    /\ state.surface = [width |-> 1, height |-> MaxDim]

\* C9: when acquisition reports Lost, the redraw handler calls resize with
\* the stored size (dimensions and viewport unchanged), draws nothing,
\* returns the continue decision, and acquires again only on a later redraw.
C9_LostReconfigures ==
    [][(IsOwnRedraw(event') /\ Acquired(state') = "Lost") =>
          /\ state'.size = state.size
          /\ state'.config = state.config
          /\ state'.surface = state.surface
          /\ state'.camera.viewport_size = state.camera.viewport_size
          /\ [i \in DOMAIN state'.effects |-> state'.effects[i].call] =
                <<"write_buffer", "get_current_texture", "configure", "info">>
          /\ state'.effects[3].arg = state.size
          /\ returned' = None
          /\ control_flow' = control_flow]_vars

C9_Witness ==
    /\ IsOwnRedraw(event)
    /\ Acquired(state) = "Lost"
    /\ CallsOf("configure") # {}
    /\ state.size = <<1, MaxDim>>

\* C10: when acquisition reports OutOfMemory, the redraw handler returns the
\* exit decision, which ends the loop, and nothing is drawn, submitted or
\* presented in that tick.
C10_OutOfMemoryExits ==
    (IsOwnRedraw(event) /\ Acquired(state) = "OutOfMemory") =>
        /\ returned = SomeExit
        /\ control_flow = "Exit"
        /\ CallsOf("draw_indexed") \cup CallsOf("submit") \cup CallsOf("present") = {}
        /\ lpc = "running"
        /\ ENABLED LoopDestroyed

C10_Witness ==
    /\ IsOwnRedraw(event)
    /\ Acquired(state) = "OutOfMemory"
    /\ state.camera.eye # <<0, 0>>

\* C11: when acquisition reports any other error (Timeout, Outdated), the
\* handler logs it and drops the frame: no draw, no submit, no present, no
\* reconfiguration, the continue decision is returned, and acquisition was
\* attempted once in the tick.
C11_OtherErrorsDropFrame ==
    [][(IsOwnRedraw(event') /\ Acquired(state') \in {"Timeout", "Outdated"}) =>
          /\ [i \in DOMAIN state'.effects |-> state'.effects[i].call] =
                <<"write_buffer", "get_current_texture", "eprintln">>
          /\ state'.effects[3].result = Acquired(state')
          /\ state'.size = state.size
          /\ state'.config = state.config
          /\ state'.surface = state.surface
          /\ returned' = None
          /\ control_flow' = control_flow]_vars

C11_Witness ==
    /\ IsOwnRedraw(event)
    /\ Acquired(state) = "Outdated"
    /\ CallsOf("eprintln") # {}
    /\ control_flow = "Poll"

\* the names of the calls of handler-state st, in order
CallNames(st) == [i \in DOMAIN st.effects |-> st.effects[i].call]

\* C12: within every redraw tick the steps occur in this order: the
\* controller's flags are applied to the camera, the uniform is recomputed,
\* it is uploaded to the existing camera buffer at offset 0 (no buffer is
\* created after setup), the frame is acquired, the render pass recorded,
\* submitted and presented; so the uniform uploaded in a tick is the
\* view-projection of the camera after that tick's movement.
C12_TickOrder ==
    [][IsOwnRedraw(event') =>
          LET moved == update_camera(state.camera_controller, state.camera)
              calls == CallNames(state')
          IN /\ state'.camera = moved
             /\ state'.camera_uniform = build_view_projection_matrix(moved)
             /\ state'.camera_buffer = state'.camera_uniform
             /\ Len(calls) >= 2
             /\ calls[1] = "write_buffer"
             /\ state'.effects[1].arg = <<0>>
             /\ calls[2] = "get_current_texture"
             /\ \A i \in DOMAIN calls :
                   /\ calls[i] \notin {"create_buffer", "create_buffer_init"}
                   /\ i > 1 => calls[i] # "write_buffer"
             /\ Acquired(state') = "Ok" =>
                   calls = <<"write_buffer", "get_current_texture", "create_view",
                             "create_command_encoder", "begin_render_pass",
                             "set_pipeline", "set_bind_group", "set_bind_group",
                             "set_vertex_buffer", "set_vertex_buffer",
                             "set_index_buffer", "draw_indexed", "submit",
                             "present">>]_vars

C12_Witness ==
    /\ IsOwnRedraw(event)
    /\ Acquired(state) = "Ok"
    /\ state.camera_controller.is_forward_pressed
    /\ state.camera.eye = <<0, SPEED>>
    /\ state.camera_buffer # build_view_projection_matrix(create_camera(state.size))

\* C13: every tick whose acquisition succeeds issues exactly one draw_indexed,
\* over indices 0..6 (base vertex 0) and instances 0..N with N the instance
\* count built at setup (52), followed by exactly one submit and one
\* present; a tick whose acquisition fails issues none of the three.
C13_OneDrawPerTick ==
    IsOwnRedraw(event) =>
        IF Acquired(state) = "Ok"
        THEN /\ Cardinality(CallsOf("draw_indexed")) = 1
             /\ Cardinality(CallsOf("submit")) = 1
             /\ Cardinality(CallsOf("present")) = 1
             /\ \A d \in CallsOf("draw_indexed"), s \in CallsOf("submit"),
                   p \in CallsOf("present") :
                      /\ state.effects[d].arg = <<0, 6, 0, 0, 52>>
                      /\ state.effects[d].arg[5] = Len(GridInstances)
                      /\ d < s
                      /\ s < p
        ELSE CallsOf("draw_indexed") \cup CallsOf("submit") \cup CallsOf("present") = {}

C13_Witness ==
    /\ IsOwnRedraw(event)
    /\ Acquired(state) = "Ok"
    /\ CallsOf("draw_indexed") # {}
    /\ state.size = <<MaxDim, 1>>

\* a close request or an Escape key press for the State's window
IsExitRequest(ev) ==
    /\ ev.kind = "WindowEvent"
    /\ ev.window_id = OwnWindow
    /\ \/ ev.event = CloseRequested
       \/ ev.event = KeyboardInput("Pressed", "Escape")

\* C14: a window-close request addressed to the program's own window yields
\* the exit decision whatever the flags, the camera position and the size
\* are, without running an update or a render; likewise a press of Escape.
C14_CloseAndEscapeExit ==
    [][IsExitRequest(event') =>
          /\ returned' = SomeExit
          /\ control_flow' = "Exit"
          /\ state'.effects = <<>>
          /\ state' = [state EXCEPT !.effects = <<>>]]_vars

C14_Witness ==
    /\ IsExitRequest(event)
    /\ event.event = CloseRequested
    /\ returned = SomeExit
    /\ state.camera_controller.is_forward_pressed
    /\ state.camera.eye # <<0, 0>>
    /\ state.size = <<1, MaxDim>>

\* an event the controller does not recognise: a key outside the eight
\* movement keys, a keyboard event without a keycode, or no keyboard event
Unrecognised(wev) ==
    \/ wev.type # "KeyboardInput"
    \/ wev.virtual_keycode \notin MovementKeys

\* C15: for an unrecognised event process_events returns false and the four
\* flags keep their values; and process_events never modifies the camera,
\* whatever the event.
C15_UnrecognisedIgnored ==
    [][history' # history =>
          LET wev == history'[Len(history')]
              r == process_events(state.camera_controller, wev)
          IN /\ Unrecognised(wev) =>
                   /\ r.result = FALSE
                   /\ r.self = state.camera_controller
                   /\ state'.camera_controller = state.camera_controller
             /\ input(state, wev).self.camera = state.camera
             /\ state'.camera = state.camera]_vars

C15_Witness ==
    /\ Len(history) = MaxKeyEvents
    /\ history[1] = KeyboardInput("Pressed", "Left")
    /\ history[2] = KeyboardInput("Pressed", NoKeycode)
    /\ history[3] = Focused
    /\ state.camera_controller.is_left_pressed

\* C16: if setup fails (no compatible adapter, device request rejected,
\* atlas decode failure), State::new returns an error, the event loop is
\* never started, the failure is reported to the log, and the process exits
\* with a non-zero status.
C16_SetupFailureExitsNonZero ==
    setup \in SetupFailures =>
        /\ lpc = "idle"
        /\ event = Event("NewEvents", "", Focused)
        /\ rpc \in {"run_returned", "exited"} =>
              \E i \in DOMAIN log : log[i] = [level |-> "error", error |-> setup]
        /\ rpc = "exited" =>
              /\ exit_status # <<>>
              /\ exit_status[1] # 0

\* C17: vertex_format_size returns a fixed positive size for every supported
\* format, and for the half-float formats Float16x2 and Float16x4 it aborts
\* instead of returning a default size, so that no layout containing such a
\* format is produced.
C17_HalfFloatsAbort ==
    /\ \A f \in VertexFormats \ {"Float16x2", "Float16x4"} :
          /\ vertex_format_size(f) \in Nat \ {0}
          /\ eval_vertex_format_size(f) = <<vertex_format_size(f)>>
    /\ \A f \in {"Float16x2", "Float16x4"} : eval_vertex_format_size(f) = <<>>
    /\ apc = "done" =>
          /\ \A i \in DOMAIN invocation.formats :
                invocation.formats[i] \notin {"Float16x2", "Float16x4"}
          /\ \A i \in DOMAIN data : data[i].format \notin {"Float16x2", "Float16x4"}
    /\ apc = "panicked" =>
          invocation.formats[shader_location] \in {"Float16x2", "Float16x4"}
    /\ (apc = "expanding" /\ shader_location > 0) =>
          \A i \in 1..shader_location :
              invocation.formats[i] \notin {"Float16x2", "Float16x4"}

C17_Witness ==
    /\ apc = "panicked"
    /\ invocation = Invoke(NoPrefix, <<"Float32x2", "Float16x4">>)
    /\ shader_location = 2

\* C18: the camera invariant zfar > znear > 0 and zoom > 0 holds at creation
\* and in every reachable state: key, resize and per-frame handlers change
\* only the eye and the viewport, never zoom, znear or zfar.
C18_CameraInvariant ==
    /\ state.camera.zfar > state.camera.znear
    /\ state.camera.znear > 0
    /\ state.camera.zoom > 0
    /\ state.camera.zoom = create_camera(state.size).zoom
    /\ state.camera.znear = create_camera(state.size).znear
    /\ state.camera.zfar = create_camera(state.size).zfar

C18_Witness ==
    /\ IsOwnRedraw(event)
    /\ state.camera.eye # <<0, 0>>
    /\ state.camera.viewport_size = <<1, MaxDim>>
    /\ latest = <<1, MaxDim>>
    /\ state.camera_controller.is_backward_pressed

\* C19: the set of cards is static after setup: no event adds, removes or
\* reorders instance records or rewrites the instance buffer, and the
\* instance count of every draw is the count built at setup.
C19_CardsStatic ==
    /\ state.instances = GridInstances
    /\ state.instance_buffer = [i \in DOMAIN GridInstances |-> to_raw(GridInstances[i])]
    /\ [][/\ state'.instances = state.instances
          /\ state'.instance_buffer = state.instance_buffer
          /\ \A i \in DOMAIN state'.effects :
                /\ state'.effects[i].call # "create_buffer_init"
                /\ state'.effects[i].call = "draw_indexed" =>
                      state'.effects[i].arg[5] = Len(state.instances)]_vars

C19_Witness ==
    /\ IsOwnRedraw(event)
    /\ Acquired(state) = "Ok"
    /\ latest = <<MaxDim, 1>>
    /\ state.camera.eye # <<0, 0>>
    /\ Len(state.instances) = NumSuits * NumRanks
    /\ \E i \in CallsOf("draw_indexed") : state.effects[i].arg[5] = NumSuits * NumRanks

\* C20: the render pipeline is built with exactly two vertex-buffer layouts,
\* both produced by the layout builder: slot 0 the quad vertex layout, slot 1
\* the instance layout, a 4x4 matrix as four vec4 rows followed by the three
\* scalar fields rank, suit index and facedown, with the packed Instance
\* record's stride.
C20_PipelineLayouts ==
    LET buffers == state.render_pipeline.vertex.buffers
    IN /\ Len(buffers) = 2
       /\ buffers[1].step_mode = "Vertex"
       /\ buffers[1].array_stride = SizeOfVertex
       /\ buffers[1].attributes = attributes(VertexInvocation)
       /\ buffers[2].step_mode = "Instance"
       /\ buffers[2].array_stride = SizeOfInstance
       /\ [i \in DOMAIN buffers[2].attributes |-> buffers[2].attributes[i].format] =
             <<"Float32x4", "Float32x4", "Float32x4", "Float32x4",
               "Uint32", "Uint32", "Uint32">>
       /\ \A i \in DOMAIN buffers[2].attributes :
             /\ buffers[2].attributes[i].shader_location =
                   buffers[2].attributes[1].shader_location + (i - 1)
             /\ buffers[2].attributes[i].offset =
                   SumSizes(InstanceInvocation.formats, i - 1)

\* the matrix that translates by (x, y, z) and does nothing else, as columns
Translation(x, y, z) ==
    << <<1, 0, 0, 0>>, <<0, 1, 0, 0>>, <<0, 0, 1, 0>>, <<x, y, z, 1>> >>

\* C21: Card::to_instance maps a card to a packed record whose model matrix
\* is the pure translation by the card's position (in f32, the type of the
\* matrix), whose rank field is the card's rank, whose suit field is
\* texture_index(suit) and whose facedown field is 1 for a face-down card and
\* 0 otherwise; two cards differing in rank or suit never yield the same
\* (rank, suit) fields.
C21_ToInstance ==
    cpc = "packed" =>
        /\ packed.model = Translation(cast_f32(card.position[1]),
                                      cast_f32(card.position[2]),
                                      cast_f32(card.position[3]))
        /\ \A i \in 1..3 :
              (card.position[i] >= -16777216 /\ card.position[i] <= 16777216) =>
                  packed.model[4][i] = card.position[i]
        /\ packed.rank = card.rank
        /\ packed.suit = texture_index(card.suit)
        /\ packed.facedown = (IF card.facedown THEN 1 ELSE 0)
        /\ \A other \in Cards :
              (other.rank # card.rank \/ other.suit # card.suit) =>
                  <<to_instance(other).rank, to_instance(other).suit>> #
                      <<packed.rank, packed.suit>>

C21_Witness ==
    /\ cpc = "packed"
    /\ card = [position |-> <<-1, 3, 0>>, facedown |-> TRUE, rank |-> 12, suit |-> "Spades"]
    /\ packed.model[4] = <<-1, 3, 0, 1>>
    /\ packed.facedown = 1

\* the determinant of a Matrix4, by its 2x2 minors
Det(m) ==
    LET a(i, j) == m[j + 1][i + 1]
        Minor(i, j, k, l) == FSub(FMul(a(i, k), a(j, l)), FMul(a(j, k), a(i, l)))
    IN FAdd(FAdd(FSub(FMul(Minor(0, 1, 0, 1), Minor(2, 3, 2, 3)),
                      FMul(Minor(0, 1, 0, 2), Minor(2, 3, 1, 3))),
                 FAdd(FMul(Minor(0, 1, 0, 3), Minor(2, 3, 1, 2)),
                      FMul(Minor(0, 1, 1, 2), Minor(2, 3, 0, 3)))),
            FSub(FMul(Minor(0, 1, 2, 3), Minor(2, 3, 0, 1)),
                 FMul(Minor(0, 1, 1, 3), Minor(2, 3, 0, 2))))

Signs == {-1, 1}

\* the world point at (sx * aspect * zoom, sy * zoom) relative to the eye,
\* at height z
EyeRelative(camera, sx, sy, z) ==
    <<FAdd(FInt(camera.eye[1]), FMul(FInt(sx), FMul(Aspect(camera), FInt(camera.zoom)))),
      FAdd(FInt(camera.eye[2]), FInt(sy * camera.zoom)),
      z,
      FInt(1)>>

\* the matrix is invertible and takes the eye-relative points
\* (+-aspect * zoom, +-zoom) at height z_near to the four viewport corners at
\* depth 0 and those at height z_far to the corners at depth 1, so that its
\* inverse takes the corners back; and the correction maps z to (z + w) / 2
RoundTrip(camera, m, z_near, z_far) ==
    /\ Det(m) # FInt(0)
    /\ \A sx \in Signs, sy \in Signs :
          /\ MulVector(m, EyeRelative(camera, sx, sy, z_near)) =
                <<FInt(sx), FInt(sy), FInt(0), FInt(1)>>
          /\ MulVector(m, EyeRelative(camera, sx, sy, z_far)) =
                <<FInt(sx), FInt(sy), FInt(1), FInt(1)>>
    /\ \A z \in {-1, 0, 1}, w \in {1, 2} :
          MulVector(OPENGL_TO_WGPU_MATRIX, <<FInt(3), FInt(-2), FInt(z), FInt(w)>>) =
              <<FInt(3), FInt(-2), Frac(z + w, 2), FInt(w)>>

\* C22: for every camera with zoom > 0 and aspect > 0,
\* build_view_projection_matrix is invertible and its inverse maps the four
\* viewport corners (NDC x, y = +-1) to the points (+-aspect * zoom, +-zoom)
\* relative to the eye; the view looks from the eye at z = 0 toward z = -1
\* with Y up, so that the near plane lies at z = -znear and the far plane at
\* z = -zfar; the final correction maps depth -1 to 0 and depth +1 to 1.
C22_ViewFromEyeAtZero ==
    lpc = "projected" =>
        RoundTrip(state.camera, state.camera_uniform,
                  FNeg(Frac(state.camera.znear, 10)),
                  FNeg(Frac(state.camera.zfar, 10)))

\* C22, amended: as above, but the view looks from one unit above the eye,
\* at z = +1, toward the eye at z = 0, so that the near plane lies at
\* z = 1 - znear and the far plane at z = 1 - zfar.
C22_ViewFromAboveEye ==
    lpc = "projected" =>
        RoundTrip(state.camera, state.camera_uniform,
                  FSub(FInt(1), Frac(state.camera.znear, 10)),
                  FSub(FInt(1), Frac(state.camera.zfar, 10)))

C22_Witness ==
    /\ lpc = "projected"
    /\ state.camera.eye = <<2, 3>>
    /\ state.camera.viewport_size = <<MaxView, 2>>
    /\ state.camera.zoom = 2
    /\ state.camera.znear = ZNEAR
    /\ state.camera_uniform[1][1] = Frac(1, MaxView)

\* the places in h of the keyboard events on key k
EventsOn(h, k) ==
    {i \in DOMAIN h : h[i].type = "KeyboardInput" /\ h[i].virtual_keycode = k}

\* key k is held after h: its own last event is a press
Held(h, k) ==
    /\ EventsOn(h, k) # {}
    /\ \E i \in EventsOn(h, k) :
          /\ \A j \in EventsOn(h, k) : j <= i
          /\ h[i].state = "Pressed"

\* C23: each direction flag is shared by two keys (W/Up, S/Down, A/Left,
\* D/Right) and, after any event sequence, is the pressed/released state of
\* the most recent event on either of its two keys: with both keys held,
\* releasing one clears the flag while the other is still held.
C23_FlagSharedByTwoKeys ==
    \A d \in Directions :
        LET on == UNION {EventsOn(history, k) : k \in KeysOf(d)}
        IN /\ Cardinality(KeysOf(d)) = 2
           /\ on = {} => ~FlagOf(state.camera_controller, d)
           /\ \A i \in on :
                 (\A j \in on : j <= i) =>
                     (FlagOf(state.camera_controller, d) <=> history[i].state = "Pressed")
           /\ \A k1, k2 \in KeysOf(d) :
                 (/\ k1 # k2
                  /\ Held(history, k1)
                  /\ history # <<>>
                  /\ history[Len(history)] = KeyboardInput("Released", k2)) =>
                     ~FlagOf(state.camera_controller, d)

C23_Witness ==
    /\ history = <<KeyboardInput("Pressed", "W"), KeyboardInput("Pressed", "Up"),
                   KeyboardInput("Released", "W")>>
    /\ Held(history, "Up")
    /\ ~state.camera_controller.is_forward_pressed

\* C24: the per-event handler never returns a control decision other than
\* 'no change' or Exit, so once an exit decision has been written to the
\* control flow (close request, Escape press or OutOfMemory) no later event
\* sets it back to continue.
C24_ExitIsSticky ==
    /\ [](returned \in {None, SomeExit})
    /\ [][/\ returned' = SomeExit => control_flow' = "Exit"
          /\ returned' = None => control_flow' = control_flow
          /\ control_flow = "Exit" => control_flow' = "Exit"]_vars

C24_Witness ==
    /\ control_flow = "Exit"
    /\ returned = None
    /\ IsOwnRedraw(event)
    /\ Acquired(state) = "Ok"

\* what one tick adds to the eye under the flags of controller c
Displacement(c) ==
    <<c.speed * (BoolAsU32(c.is_right_pressed) - BoolAsU32(c.is_left_pressed)),
      c.speed * (BoolAsU32(c.is_forward_pressed) - BoolAsU32(c.is_backward_pressed))>>

\* C25: the camera update and the uniform upload happen before the
\* acquisition and are not rolled back when it fails: a tick ending in Lost,
\* OutOfMemory or another error has still moved the eye by that tick's
\* displacement, so after k redraw ticks under constant flags the eye has
\* moved k times the per-tick displacement, however many frames were dropped.
C25_DroppedFramesStillMove ==
    LET k == Len(history)
        d == Displacement(state.camera_controller)
    IN /\ state.camera.eye = <<k * d[1], k * d[2]>>
       /\ state.camera_uniform = build_view_projection_matrix(state.camera)
       /\ state.camera_buffer = state.camera_uniform
       /\ (k > 0 /\ lpc = "running") =>
             /\ Acquired(state) = history[k]
             /\ CallNames(state)[1] = "write_buffer"
             /\ CallNames(state)[2] = "get_current_texture"

C25_Witness ==
    /\ history = <<"Timeout", "Lost", "OutOfMemory">>
    /\ state.camera_controller.is_forward_pressed
    /\ state.camera_controller.is_left_pressed
    /\ state.camera.eye = <<0 - 3 * SPEED, 3 * SPEED>>
    /\ state.camera_buffer # build_view_projection_matrix(create_camera(state.size))

====
